---- MODULE Spec2Model ----
(***************************************************************************)
(* Model of pulser/devices.py: the abstract PasqalDevice (constructor,     *)
(* array validation, accessors) and its one concrete variant, Chadoq2.     *)
(*                                                                         *)
(* Positions are vectors of integers (um).  On integers the float64        *)
(* computations of numpy/scipy are exact up to the final sqrt, and sqrt is *)
(* monotone and exact on perfect squares, so `sqrt(s) < m` is modelled as  *)
(* `s < m*m` and `sqrt(s) > m` as `s > m*m`.                               *)
(*                                                                         *)
(* A qubit dictionary is a function from the labels 0..n-1 (q0, q1, ...,   *)
(* in insertion order) to position vectors.                                *)
(***************************************************************************)
EXTENDS Integers, Sequences, FiniteSets, TLC

VARIABLES
    pc,               \* "start" | "returned" | "raised": where __init__ stands
    qubits,           \* the argument given to __init__, as it was at the call
    register_qubits,  \* heap: the `qubits` mapping of the one Register object
    _register,        \* self._register: "None" or a reference to that Register
    raised,           \* the exception __init__ raised, or NoError
    check_calls,      \* how many times _check_array was entered
    atoms,            \* the list handed to _check_array, as it is after the call
    view,             \* what the caller got from the `qubits` accessor
    channels,         \* self.channels of the variant under consideration
    bases_read        \* the results of the successive reads of supported_bases

vars == <<pc, qubits, register_qubits, _register, raised, check_calls, atoms,
          view, channels, bases_read>>

-----------------------------------------------------------------------------
(* Bounds of the enumeration                                               *)

MaxLen == 2       \* longest enumerated qubit dictionary
MaxReads == 2     \* successive reads of supported_bases that are recorded

-----------------------------------------------------------------------------
(* Channels (pulser/channels.py is not part of the sources)                *)

Rydberg_Global == [cls |-> "Rydberg", addressing |-> "Global", basis |-> "ground-rydberg"]
Rydberg_Local == [cls |-> "Rydberg", addressing |-> "Local", basis |-> "ground-rydberg"]
Raman_Local == [cls |-> "Raman", addressing |-> "Local", basis |-> "digital"]

-----------------------------------------------------------------------------
(* Chadoq2: the constant overrides of the abstract properties              *)

Chadoq2Channels ==
    [n \in {"rydberg_global", "rydberg_local", "rydberg_local2", "raman_local"} |->
        CASE n = "rydberg_global" -> Rydberg_Global
          [] n = "rydberg_local"  -> Rydberg_Local
          [] n = "rydberg_local2" -> Rydberg_Local
          [] n = "raman_local"    -> Raman_Local]

Chadoq2 ==
    [name                |-> "Chadoq2",
     max_dimensionality  |-> 2,
     max_atom_num        |-> 100,
     max_radial_distance |-> 50,
     min_atom_distance   |-> 4]

-----------------------------------------------------------------------------
(* numpy / scipy helpers, on squared lengths                               *)

RECURSIVE SumSq(_)
SumSq(v) == IF v = <<>> THEN 0 ELSE Head(v) * Head(v) + SumSq(Tail(v))

\* np.linalg.norm(pos) squared
norm_sq(pos) == SumSq(pos)

\* one entry of pdist, squared: the Euclidean distance of two rows
dist_sq(p, q) == SumSq([i \in 1..Len(p) |-> p[i] - q[i]])

\* pdist(atoms), squared: the distances of all pairs i < j (as a set of values)
pdist_sq(l) ==
    {dist_sq(l[pr[1]], l[pr[2]]) :
        pr \in {x \in (1..Len(l)) \X (1..Len(l)) : x[1] < x[2]}}

np_min(S) == CHOOSE m \in S : \A x \in S : m <= x
np_max(S) == CHOOSE m \in S : \A x \in S : m >= x

\* list(register.qubits.values()): the positions in insertion order
values(m) == [i \in 1..Cardinality(DOMAIN m) |-> m[i - 1]]

-----------------------------------------------------------------------------
(* Exceptions: the type, the fixed text of the message (named by the rule  *)
(* it speaks of) and the arguments formatted into it                       *)

NoError == [type |-> "None", rule |-> "none", args |-> <<>>]
TypeError == [type |-> "TypeError", rule |-> "type", args |-> <<>>]
ValueError(rule, args) == [type |-> "ValueError", rule |-> rule, args |-> args]
\* numpy's AxisError (a ValueError subclass), with numpy's own message
AxisError == [type |-> "AxisError", rule |-> "none", args |-> <<>>]

-----------------------------------------------------------------------------
(* PasqalDevice._check_array, one operator per check                       *)

\* len(atoms) > self.max_atom_num
too_many_atoms(self, l) == Len(l) > self.max_atom_num

\* for pos in atoms: len(pos) != self.max_dimensionality
wrong_dimension(self, l) ==
    \E i \in 1..Len(l) : Len(l[i]) # self.max_dimensionality

\* variant of too_close: the bound taken as exclusive (<= for <)
too_close_exclusive(self, l) ==
    /\ Len(l) > 1
    /\ np_min(pdist_sq(l)) <= self.min_atom_distance * self.min_atom_distance

\* len(atoms) > 1 and np.min(pdist(atoms)) < self.min_atom_distance
too_close(self, l) ==
    /\ Len(l) > 1
    /\ np_min(pdist_sq(l)) < self.min_atom_distance * self.min_atom_distance

\* np.linalg.norm(atoms, axis=1) on an empty list: the array built from [] is
\* one-dimensional, it has no axis 1, and numpy raises AxisError
norm_has_no_axis(l) == Len(l) = 0

\* variant of too_far: only the first atom's norm is compared (np.max dropped)
too_far_first_atom(self, l) ==
    norm_sq(l[1]) > self.max_radial_distance * self.max_radial_distance

\* np.max(np.linalg.norm(atoms, axis=1)) > self.max_radial_distance
too_far(self, l) ==
    np_max({norm_sq(l[i]) : i \in 1..Len(l)})
        > self.max_radial_distance * self.max_radial_distance

\* variant of _check_array: the dimensionality loop placed before the capacity test
_check_array_dimension_first(self, l) ==
    IF wrong_dimension(self, l)
        THEN ValueError("dimensionality", <<self.max_dimensionality>>)
    ELSE IF too_many_atoms(self, l)
        THEN ValueError("capacity", <<self.max_atom_num>>)
    ELSE IF too_close(self, l)
        THEN ValueError("spacing", <<>>)
    ELSE IF norm_has_no_axis(l)
        THEN AxisError
    ELSE IF too_far(self, l)
        THEN ValueError("radial", <<self.max_radial_distance>>)
    ELSE NoError

\* The exception _check_array raises on the list l, NoError when it returns
_check_array(self, l) ==
    IF too_many_atoms(self, l)
        THEN ValueError("capacity", <<self.max_atom_num>>)
    ELSE IF wrong_dimension(self, l)
        THEN ValueError("dimensionality", <<self.max_dimensionality>>)
    ELSE IF too_close(self, l)
        THEN ValueError("spacing", <<>>)
    ELSE IF norm_has_no_axis(l)
        THEN AxisError
    ELSE IF too_far(self, l)
        THEN ValueError("radial", <<self.max_radial_distance>>)
    ELSE NoError

-----------------------------------------------------------------------------
(* Register (pulser/register.py is not part of the sources): it holds the  *)
(* label -> position mapping it was built from as its `qubits`             *)

Register(d) == d

-----------------------------------------------------------------------------
(* PasqalDevice.__init__ as a function of the argument                     *)

\* variant of Construct: no else branch, whatever is not a dict is taken for a
\* Register and validated
Construct_no_type_test(self, q) ==
    LET register == IF q.type = "dict" THEN Register(q.val) ELSE q.val
        l == values(register)
        e == _check_array(self, l)
    IN  [raised |-> e, register |-> register,
         _register |-> IF e = NoError THEN "reg" ELSE "None",
         check_calls |-> 1, atoms |-> l]

\* variant of Construct: self._register assigned before _check_array is called
Construct_assign_first(self, q) ==
    IF q.type \notin {"dict", "Register"}
    THEN [raised |-> TypeError, register |-> <<>>, _register |-> "None",
          check_calls |-> 0, atoms |-> <<>>]
    ELSE LET register == IF q.type = "dict" THEN Register(q.val) ELSE q.val
             l == values(register)
             e == _check_array(self, l)
         IN  [raised |-> e, register |-> register, _register |-> "reg",
              check_calls |-> 1, atoms |-> l]

\* The outcome of __init__(self, q): the exception, the Register object bound
\* to `register`, self._register, and the list given to _check_array
Construct(self, q) ==
    IF q.type \notin {"dict", "Register"}
    THEN [raised |-> TypeError, register |-> <<>>, _register |-> "None",
          check_calls |-> 0, atoms |-> <<>>]
    ELSE LET register == IF q.type = "dict" THEN Register(q.val) ELSE q.val
             l == values(register)
             e == _check_array(self, l)
         IN  [raised |-> e, register |-> register,
              _register |-> IF e = NoError THEN "reg" ELSE "None",
              check_calls |-> 1, atoms |-> l]

\* PasqalDevice.qubits: self._register.qubits itself, no copy
qubits_property(r) == r

\* variant of supported_bases: iterates the dict itself (its keys, the channel
\* names) in place of its values
supported_bases_of_keys(chs) == {n : n \in DOMAIN chs}

\* PasqalDevice.supported_bases
supported_bases(chs) == {chs[n].basis : n \in DOMAIN chs}

-----------------------------------------------------------------------------
(* Inputs                                                                  *)

Coords == {0, 3, 4, 50, 51}     \* coordinates of the 2D positions
OffCoords == {0, 51}            \* coordinates of the 1D and 3D positions

Vectors(d) == [1..d -> IF d = 2 THEN Coords ELSE OffCoords]

\* the dictionaries of up to MaxLen qubits, all positions of one length
ShortDicts ==
    UNION {[0..(n - 1) -> Vectors(d)] : n \in 0..MaxLen, d \in 1..3}

\* n sites of a 10-column grid of pitch min_atom_distance around the centre
Grid(n) ==
    [k \in 0..(n - 1) |->
        <<Chadoq2.min_atom_distance * (k % 10) - 20,
          Chadoq2.min_atom_distance * (k \div 10) - 20>>]

\* n qubits all at the position p
Repeat(n, p) == [k \in 0..(n - 1) |-> p]

\* the dictionaries at and just above Chadoq2's capacity
LongDicts ==
    {Grid(n) : n \in {Chadoq2.max_atom_num, Chadoq2.max_atom_num + 1}}
    \cup {Repeat(n, p) : n \in {Chadoq2.max_atom_num, Chadoq2.max_atom_num + 1},
                         p \in UNION {Vectors(d) : d \in 1..3}}

QubitsInputs ==
    [type : {"dict", "Register"}, val : ShortDicts \cup LongDicts]
    \cup [type : {"list", "NoneType"}, val : {<<>>}]

\* what a caller may write into a mapping it holds
CallerWrites == {<<0, 0>>, <<51, 51>>}

-----------------------------------------------------------------------------
(* The device: construction, then what the caller can do                   *)

Init ==
    /\ pc = "start"
    /\ qubits = [type |-> "NoneType", val |-> <<>>]
    /\ register_qubits = <<>>
    /\ _register = "None"
    /\ raised = NoError
    /\ check_calls = 0
    /\ atoms = <<>>
    /\ view = "None"
    /\ channels = Chadoq2Channels
    /\ bases_read = <<>>

\* Chadoq2(q)
__init__(q) ==
    /\ pc = "start"
    /\ LET r == Construct(Chadoq2, q)
       IN  /\ qubits' = q
           /\ raised' = r.raised
           /\ register_qubits' = r.register
           /\ _register' = r._register
           /\ check_calls' = r.check_calls
           /\ atoms' = r.atoms
           /\ pc' = IF r.raised = NoError THEN "returned" ELSE "raised"
    /\ UNCHANGED <<view, channels, bases_read>>

\* v = device.qubits
GetQubits ==
    /\ pc = "returned"
    /\ view = "None"
    /\ view' = qubits_property(_register)
    /\ UNCHANGED <<pc, qubits, register_qubits, _register, raised, check_calls,
                   atoms, channels, bases_read>>

\* v[label] = p, on the value the accessor returned
CallerWriteView(k, p) ==
    /\ view = "reg"
    /\ k \in DOMAIN register_qubits
    /\ register_qubits' = [register_qubits EXCEPT ![k] = p]
    /\ UNCHANGED <<pc, qubits, _register, raised, check_calls, atoms, view,
                   channels, bases_read>>

\* reg.qubits[label] = p, on the Register that was given to the constructor
CallerWriteRegister(k, p) ==
    /\ pc = "returned"
    /\ qubits.type = "Register"
    /\ k \in DOMAIN register_qubits
    /\ register_qubits' = [register_qubits EXCEPT ![k] = p]
    /\ UNCHANGED <<pc, qubits, _register, raised, check_calls, atoms, view,
                   channels, bases_read>>

Next ==
    \/ pc = "start" /\ \E q \in QubitsInputs : __init__(q)
    \/ GetQubits
    \/ \E k \in 0..MaxLen, p \in CallerWrites : CallerWriteView(k, p)
    \/ \E k \in 0..MaxLen, p \in CallerWrites : CallerWriteRegister(k, p)

Spec == Init /\ [][Next]_vars

-----------------------------------------------------------------------------
(* supported_bases as a function of the channel mapping of a variant       *)

ChannelKinds == {Rydberg_Global, Rydberg_Local, Raman_Local}
ChannelNames == DOMAIN Chadoq2Channels \cup {"extra"}
ChannelMappings == UNION {[D -> ChannelKinds] : D \in SUBSET ChannelNames}

InitBases ==
    /\ pc = "start"
    /\ qubits = [type |-> "NoneType", val |-> <<>>]
    /\ register_qubits = <<>>
    /\ _register = "None"
    /\ raised = NoError
    /\ check_calls = 0
    /\ atoms = <<>>
    /\ view = "None"
    /\ channels \in ChannelMappings
    /\ bases_read = <<>>

\* b = device.supported_bases
ReadSupportedBases ==
    /\ Len(bases_read) < MaxReads
    /\ bases_read' = Append(bases_read, supported_bases(channels))
    /\ UNCHANGED <<pc, qubits, register_qubits, _register, raised, check_calls,
                   atoms, view, channels>>

\* the variant whose `channels` has the one more entry n: ch
DefineChannel(n, ch) ==
    /\ n \notin DOMAIN channels
    /\ channels' = [m \in DOMAIN channels \cup {n} |->
                        IF m = n THEN ch ELSE channels[m]]
    /\ bases_read' = <<>>
    /\ UNCHANGED <<pc, qubits, register_qubits, _register, raised, check_calls,
                   atoms, view>>

NextBases ==
    \/ ReadSupportedBases
    \/ \E n \in ChannelNames, ch \in ChannelKinds : DefineChannel(n, ch)

SpecBases == InitBases /\ [][NextBases]_vars

-----------------------------------------------------------------------------
(* The four constraints, stated on a qubit mapping                         *)

CountOk(d, m) == Cardinality(DOMAIN m) <= d.max_atom_num

DimOk(d, m) == \A k \in DOMAIN m : Len(m[k]) = d.max_dimensionality

SpacingOk(d, m) ==
    \A k, j \in DOMAIN m :
        k < j => dist_sq(m[k], m[j]) >= d.min_atom_distance * d.min_atom_distance

RadialOk(d, m) ==
    \A k \in DOMAIN m :
        norm_sq(m[k]) <= d.max_radial_distance * d.max_radial_distance

SatisfiesAll(d, m) ==
    CountOk(d, m) /\ DimOk(d, m) /\ SpacingOk(d, m) /\ RadialOk(d, m)

\* __init__ was given a dict or a Register and has finished
Validated == pc # "start" /\ qubits.type \in {"dict", "Register"}

-----------------------------------------------------------------------------
(* Claims                                                                  *)

\* C1: when __init__ returns normally, the qubit set it stored satisfies the
\* four constraints of the variant: at most max_atom_num atoms, every position
\* of length max_dimensionality, every pair at least min_atom_distance apart,
\* every atom at most max_radial_distance from the origin.
Thm_C1 ==
    [][(pc = "start" /\ pc' = "returned")
        => (_register' = "reg" /\ SatisfiesAll(Chadoq2, register_qubits'))]_vars

Wit_C1 ==
    /\ pc = "returned"
    /\ _register = "reg"
    /\ view = "None"
    /\ register_qubits = qubits.val
    /\ Cardinality(DOMAIN register_qubits) = 2

\* C2: every input that satisfies the four constraints, of any size from 0 to
\* max_atom_num, is accepted: no error is raised, __init__ returns, and the
\* Chadoq2 reports the limits 2, 100, 50, 4.
Cex_C2 ==
    (Validated /\ SatisfiesAll(Chadoq2, qubits.val))
        => /\ pc = "returned"
           /\ raised = NoError
           /\ <<Chadoq2.max_dimensionality, Chadoq2.max_atom_num,
                Chadoq2.max_radial_distance, Chadoq2.min_atom_distance>>
                  = <<2, 100, 50, 4>>

\* C3: the error reported is the one of the first violated constraint in the
\* order capacity, dimensionality, spacing, radial bound.
Thm_C3 ==
    Validated =>
        LET m == qubits.val
            d == Chadoq2
        IN  /\ ~CountOk(d, m) => raised = ValueError("capacity", <<d.max_atom_num>>)
            /\ (CountOk(d, m) /\ ~DimOk(d, m)) => raised.rule = "dimensionality"
            /\ (CountOk(d, m) /\ DimOk(d, m) /\ ~SpacingOk(d, m))
                    => raised.rule = "spacing"
            /\ (CountOk(d, m) /\ DimOk(d, m) /\ SpacingOk(d, m) /\ ~RadialOk(d, m))
                    => raised.rule = "radial"

Wit_C3 ==
    /\ pc = "raised"
    /\ raised.rule = "capacity"
    /\ Cardinality(DOMAIN qubits.val) = Chadoq2.max_atom_num + 1
    /\ ~DimOk(Chadoq2, qubits.val)
    /\ ~SpacingOk(Chadoq2, qubits.val)
    /\ ~RadialOk(Chadoq2, qubits.val)

\* C4: for an input of at least 2 atoms that passes the capacity and the
\* dimensionality checks, the spacing error is raised exactly when some pair is
\* strictly closer than min_atom_distance; a pair at exactly min_atom_distance
\* is accepted; with 0 or 1 atom the spacing error is never raised.
Thm_C4 ==
    Validated =>
        LET m == qubits.val
            d == Chadoq2
        IN  /\ (Cardinality(DOMAIN m) >= 2 /\ CountOk(d, m) /\ DimOk(d, m))
                    => (raised.rule = "spacing" <=> ~SpacingOk(d, m))
            /\ Cardinality(DOMAIN m) <= 1 => raised.rule # "spacing"
            /\ m = <<<<0, 0>>, <<d.min_atom_distance, 0>>>> => pc = "returned"

Wit_C4 ==
    /\ pc = "returned"
    /\ values(qubits.val) = <<<<0, 0>>, <<Chadoq2.min_atom_distance, 0>>>>
    /\ raised = NoError
    /\ view = "None"

\* C5: for an input that passes the first three checks, the radial check fails
\* exactly when some atom's norm is strictly greater than max_radial_distance.
Cex_C5 ==
    (Validated /\ CountOk(Chadoq2, qubits.val) /\ DimOk(Chadoq2, qubits.val)
               /\ SpacingOk(Chadoq2, qubits.val))
        => (raised # NoError <=> ~RadialOk(Chadoq2, qubits.val))

\* C6: every constraint-violation error carries the value of the violated
\* limit: max_atom_num, max_dimensionality, min_atom_distance or
\* max_radial_distance.
Cex_C6 ==
    raised.type = "ValueError" =>
        raised.args =
            CASE raised.rule = "capacity"       -> <<Chadoq2.max_atom_num>>
              [] raised.rule = "dimensionality" -> <<Chadoq2.max_dimensionality>>
              [] raised.rule = "spacing"        -> <<Chadoq2.min_atom_distance>>
              [] raised.rule = "radial"         -> <<Chadoq2.max_radial_distance>>

\* C7: an argument that is neither a dict nor a Register makes __init__ raise
\* TypeError without _check_array being entered; a dict or a Register never
\* makes __init__ raise TypeError.
Thm_C7 ==
    /\ (pc # "start" /\ qubits.type \notin {"dict", "Register"})
            => (pc = "raised" /\ raised = TypeError /\ check_calls = 0)
    /\ Validated => raised.type # "TypeError"

Wit_C7 ==
    /\ pc = "raised"
    /\ qubits.type = "list"
    /\ raised.type = "TypeError"
    /\ check_calls = 0

\* C8: once __init__ has returned, the qubit set the device stores never
\* changes, whatever the caller does with the accessor's value or with the
\* Register it passed, and so keeps satisfying the four constraints.
Cex_C8 ==
    [][pc = "returned"
        => /\ _register' = _register
           /\ register_qubits' = register_qubits
           /\ SatisfiesAll(Chadoq2, register_qubits')]_vars

\* C9: supported_bases is the set of the distinct bases of the channels: each
\* channel's basis is in it, each member is some channel's basis, it has no
\* more members than there are channels and fewer than four for Chadoq2's
\* channels, successive reads are equal, and a further channel whose basis is
\* already present leaves its cardinality unchanged.
BasesReadOk ==
    \A i \in 1..Len(bases_read) :
        /\ \A n \in DOMAIN channels : channels[n].basis \in bases_read[i]
        /\ \A b \in bases_read[i] : \E n \in DOMAIN channels : channels[n].basis = b
        /\ Cardinality(bases_read[i]) <= Cardinality(DOMAIN channels)
        /\ channels = Chadoq2Channels => Cardinality(bases_read[i]) < 4
        /\ \A j \in 1..Len(bases_read) : bases_read[j] = bases_read[i]

DuplicateBasisAdded ==
    /\ DOMAIN channels' # DOMAIN channels
    /\ \A n \in DOMAIN channels' \ DOMAIN channels :
          \E m \in DOMAIN channels : channels[m].basis = channels'[n].basis

Thm_C9 ==
    [][/\ BasesReadOk'
       /\ DuplicateBasisAdded
            => Cardinality(supported_bases(channels'))
                 = Cardinality(supported_bases(channels))]_vars

Wit_C9 ==
    /\ Len(bases_read) = 2
    /\ DOMAIN channels = ChannelNames
    /\ \A n \in DOMAIN Chadoq2Channels : channels[n] = Chadoq2Channels[n]
    /\ Cardinality(bases_read[2]) = 2

\* C10: whenever __init__ raises, self._register has not been assigned; and
\* _check_array leaves the list it was given as it was (the positions of the
\* register, in order).
Thm_C10 ==
    [][(pc = "start" /\ pc' # "start")
        => /\ pc' = "raised" => (raised' # NoError /\ _register' = "None")
           /\ check_calls' = 1 =>
                (atoms' = values(qubits'.val) /\ register_qubits' = qubits'.val)]_vars

Wit_C10 ==
    /\ pc = "raised"
    /\ raised.type = "ValueError"
    /\ check_calls = 1
    /\ _register = "None"
    /\ Len(atoms) = 2
    /\ atoms = values(qubits.val)

====
